---- MODULE Spec2Model ----
(***************************************************************************)
(* Model of my-digital-library/capture_bore.py: capture_bore_url (the      *)
(* byte-by-byte scan of the tunnel binary's output with its 15 second      *)
(* budget and the regex fallback), send_email, and the top-level script.   *)
(* Bytes are one-character strings; "xFF" stands for the byte 0xFF, which  *)
(* is never valid in UTF-8.                                                *)
(***************************************************************************)
EXTENDS Integers, Sequences, FiniteSets, TLC

VARIABLES
    pc,              \* the statement the script is at
    output,          \* the bytes read so far, line 39
    found_bore_pub,  \* line 41
    port_digits,     \* line 42
    elapsed,         \* time.time() - start_time, in seconds
    url,             \* the url capture_bore_url returned, line 110
    process,         \* the handle capture_bore_url returned, line 110
    via,             \* the return statement capture_bore_url left by
    child,           \* the state of the child spawned at line 27
    childPos,        \* how many bytes of a marker the child has written
    termReqs,        \* calls of process.terminate() so far
    interrupts,      \* KeyboardInterrupts raised so far
    urlPrinted,      \* line 114 has printed the url
    emailCalls,      \* calls of send_email so far
    emailOutcome,    \* how the mail transport behaved in send_email
    emailRet,        \* <<r>> once send_email has returned r
    rerun,           \* the state of the bore.exe started at line 132
    rerunCalls       \* calls of subprocess.run so far

vars == <<pc, output, found_bore_pub, port_digits, elapsed, url, process, via,
          child, childPos, termReqs, interrupts,
          urlPrinted, emailCalls, emailOutcome, emailRet, rerun, rerunCalls>>

scanVars == <<output, found_bore_pub, port_digits, childPos>>
mainVars == <<urlPrinted, emailCalls, emailOutcome, emailRet, rerun, rerunCalls>>
retVars == <<url, process, via>>

----------------------------------------------------------------------------
(* Bounds of the model *)

\* most digit bytes the child writes
MaxDigits == 5
\* most single non-digit bytes the child writes outside a marker
MaxOther == 1
\* most markers the child starts to write
MaxMarkers == 2
\* most bytes the child writes before its first marker
MaxNoise == 1
\* most interrupts the user sends in one run
MaxInterrupts == 1
\* seconds of wall-clock time that pass in one step of the clock
TickStep == 8

----------------------------------------------------------------------------
(* Program constants *)

\* the budget of the scan loop, line 44
TIMEOUT == 15
\* shortest digit run the fast path accepts, line 68
MinPort == 4
\* bounds of the fallback pattern \d{4,5}, line 81
ReMin == 4
ReMax == 5

\* the literal 'bore.pub:' of line 57 (and of the pattern of line 81)
Marker == <<"b", "o", "r", "e", ".", "p", "u", "b", ":">>

Digits == {"1", "2"}
OtherBytes == {" ", "xFF"}

\* f"http://bore.pub:{port_digits}/opds/all", line 69
FastUrl(digits) == <<"http://bore.pub:">> \o digits \o <<"/opds/all">>
\* f"http://bore.pub:{port}/", line 84
FallbackUrl(port) == <<"http://bore.pub:">> \o port \o <<"/">>
\* None, line 88
None == <<>>

----------------------------------------------------------------------------
(* Pure helpers *)

\* a byte that decodes on its own (ASCII); 0xFF is undecodable
IsDecodable(b) == b # "xFF"

\* bytes.decode('utf-8', errors='ignore'): undecodable bytes are dropped
Decode(bytes) == SelectSeq(bytes, IsDecodable)

\* str.isdigit() of the decoded single byte ('' is not a digit)
IsDigitChar(char) == char # <<>> /\ char[1] \in Digits

\* s[i .. i+Len(t)-1] = t
MatchAt(s, t, i) ==
    /\ i >= 1
    /\ i + Len(t) - 1 <= Len(s)
    /\ \A k \in 1..Len(t) : s[i + k - 1] = t[k]

\* the test  t in s  on strings
Contains(s, t) == \E i \in 1..(Len(s) + 1) : MatchAt(s, t, i)

\* number of leading digits of s from position i on, at most max
RECURSIVE DigitRun(_, _, _)
DigitRun(s, i, max) ==
    IF max = 0 \/ i > Len(s) \/ s[i] \notin Digits THEN 0
    ELSE 1 + DigitRun(s, i + 1, max - 1)

\* re_search with the pattern r'bore\.pub:(\d{4})'
RECURSIVE re_search_4(_, _)
re_search_4(s, i) ==
    IF i + Len(Marker) - 1 > Len(s) THEN <<>>
    ELSE IF MatchAt(s, Marker, i)
            /\ DigitRun(s, i + Len(Marker), ReMin) >= ReMin
         THEN SubSeq(s, i + Len(Marker), i + Len(Marker) + ReMin - 1)
         ELSE re_search_4(s, i + 1)

\* re.search(r'bore\.pub:(\d{4,5})', s) tried from position i on: group(1)
\* of the leftmost match, the quantifier being greedy; <<>> for no match
RECURSIVE re_search(_, _)
re_search(s, i) ==
    IF i + Len(Marker) - 1 > Len(s) THEN <<>>
    ELSE IF MatchAt(s, Marker, i)
            /\ DigitRun(s, i + Len(Marker), ReMax) >= ReMin
         THEN SubSeq(s, i + Len(Marker),
                     i + Len(Marker) + DigitRun(s, i + Len(Marker), ReMax) - 1)
         ELSE re_search(s, i + 1)

\* the loop condition with a budget of 5 seconds
LoopCond_5(t) == t < 5

\* the condition of the while loop, line 44
LoopCond(t) == t < TIMEOUT

\* the length test with an off-by-one threshold
PortComplete_3(digits) == Len(digits) >= MinPort - 1

\* the length test of the fast path, line 68
PortComplete(digits) == Len(digits) >= MinPort

Count(s, S) == Len(SelectSeq(s, LAMBDA x : x \in S))

----------------------------------------------------------------------------
Init ==
    /\ pc = "loop"
    /\ output = <<>>
    /\ found_bore_pub = FALSE
    /\ port_digits = <<>>
    /\ elapsed = 0
    /\ url = None
    /\ process = "unset"
    /\ via = "none"
    /\ child = "running"
    /\ childPos = 0
    /\ termReqs = 0
    /\ interrupts = 0
    /\ urlPrinted = FALSE
    /\ emailCalls = 0
    /\ emailOutcome = "none"
    /\ emailRet = <<>>
    /\ rerun = "none"
    /\ rerunCalls = 0

----------------------------------------------------------------------------
(* The child process (bore.exe) and the clock *)

\* the handle of the child spawned by Popen, line 27
CapturedChild == "bore#1"

\* the bytes the child may write next: the rest of a marker it has begun
\* (possibly broken by an undecodable byte), else a digit, another byte or
\* the first byte of a marker
NextBytes ==
    LET Singles == Count(output, {":"}) > 0 \/ Len(output) < MaxNoise IN
    IF childPos > 0
    THEN {Marker[childPos + 1]}
         \cup (IF childPos = Len(Marker) - 1 /\ Count(output, OtherBytes) < MaxOther
               THEN {"xFF"} ELSE {})
    ELSE (IF Count(output, Digits) < MaxDigits /\ Singles THEN Digits ELSE {})
         \cup (IF Count(output, OtherBytes) < MaxOther /\ Singles
               THEN OtherBytes ELSE {})
         \cup (IF Count(output, {":"}) < MaxMarkers THEN {Marker[1]} ELSE {})

\* wall-clock time passes while capture_bore_url runs
Tick ==
    /\ pc \in {"loop", "read", "sleep"}
    /\ elapsed < TIMEOUT
    /\ elapsed' = elapsed + TickStep
    /\ UNCHANGED <<pc, scanVars, retVars, child, termReqs, interrupts, mainVars>>

\* the child exits by itself, which closes its end of the pipe
ChildExit ==
    /\ child = "running"
    /\ pc \in {"loop", "read", "sleep", "wait"}
    /\ child' = "exited"
    /\ UNCHANGED <<pc, scanVars, retVars, elapsed, termReqs, interrupts, mainVars>>

----------------------------------------------------------------------------
(* capture_bore_url *)

\* line 44: the loop condition holds, the body is entered
LoopEnter ==
    /\ pc = "loop"
    /\ LoopCond(elapsed)
    /\ pc' = "read"
    /\ UNCHANGED <<scanVars, retVars, elapsed, child, termReqs, interrupts, mainVars>>

\* lines 76-88: the url the fallback search finds in the whole output
Fallback(bytes) ==
    LET port == re_search(Decode(bytes), 1) IN
      IF port # <<>> THEN FallbackUrl(port) ELSE None

\* LoopExit with a process.terminate() before the return of line 88
LoopExit_terminate ==
    /\ pc = "loop"
    /\ ~LoopCond(elapsed)
    /\ url' = Fallback(output)
    /\ process' = CapturedChild
    /\ via' = "timeout"
    /\ termReqs' = IF Fallback(output) = None THEN termReqs + 1 ELSE termReqs
    /\ pc' = "main"
    /\ UNCHANGED <<scanVars, elapsed, child, interrupts, mainVars>>

\* lines 44 and 75-88: the loop condition fails, the loop is left, the
\* fallback search runs and capture_bore_url returns
LoopExit ==
    /\ pc = "loop"
    /\ ~LoopCond(elapsed)
    /\ url' = Fallback(output)
    /\ process' = CapturedChild
    /\ via' = "timeout"
    /\ pc' = "main"
    /\ UNCHANGED <<scanVars, elapsed, child, termReqs, interrupts, mainVars>>

\* ReadByte with port_digits emptied when a non-digit ends a short run
ReadByte_reset(b) ==
    /\ pc = "read"
    /\ child = "running"
    /\ b \in NextBytes
    /\ output' = Append(output, b)
    /\ childPos' = IF childPos > 0
                   THEN (IF b = Marker[childPos + 1]
                         THEN (childPos + 1) % Len(Marker) ELSE childPos)
                   ELSE (IF b = Marker[1] THEN 1 ELSE 0)
    /\ LET char == Decode(<<b>>) IN
         IF ~found_bore_pub
         THEN /\ found_bore_pub' = Contains(Decode(output'), Marker)
              /\ pc' = "loop"
              /\ UNCHANGED <<port_digits, retVars>>
         ELSE IF IsDigitChar(char)
         THEN /\ port_digits' = port_digits \o char
              /\ pc' = "loop"
              /\ UNCHANGED <<found_bore_pub, retVars>>
         ELSE IF port_digits # <<>> /\ PortComplete(port_digits)
         THEN /\ url' = FastUrl(port_digits)
              /\ process' = CapturedChild
              /\ via' = "fast"
              /\ pc' = "main"
              /\ UNCHANGED <<found_bore_pub, port_digits>>
         ELSE /\ pc' = "loop"
              /\ port_digits' = <<>>
              /\ UNCHANGED <<found_bore_pub, retVars>>
    /\ UNCHANGED <<elapsed, child, termReqs, interrupts, mainVars>>

\* lines 47-71: read(1) delivers byte b
ReadByte(b) ==
    /\ pc = "read"
    /\ child = "running"
    /\ b \in NextBytes
    /\ output' = Append(output, b)
    /\ childPos' = IF childPos > 0
                   THEN (IF b = Marker[childPos + 1]
                         THEN (childPos + 1) % Len(Marker) ELSE childPos)
                   ELSE (IF b = Marker[1] THEN 1 ELSE 0)
    /\ LET char == Decode(<<b>>) IN
         IF ~found_bore_pub
         THEN /\ found_bore_pub' = Contains(Decode(output'), Marker)
              /\ pc' = "loop"
              /\ UNCHANGED <<port_digits, retVars>>
         ELSE IF IsDigitChar(char)
         THEN /\ port_digits' = port_digits \o char
              /\ pc' = "loop"
              /\ UNCHANGED <<found_bore_pub, retVars>>
         ELSE IF port_digits # <<>> /\ PortComplete(port_digits)
         THEN /\ url' = FastUrl(port_digits)
              /\ process' = CapturedChild
              /\ via' = "fast"
              /\ pc' = "main"
              /\ UNCHANGED <<found_bore_pub, port_digits>>
         ELSE /\ pc' = "loop"
              /\ UNCHANGED <<found_bore_pub, port_digits, retVars>>
    /\ UNCHANGED <<elapsed, child, termReqs, interrupts, mainVars>>

\* lines 47-48: the pipe is at end of file, read(1) delivers b''
ReadEOF ==
    /\ pc = "read"
    /\ child = "exited"
    /\ pc' = "loop"
    /\ UNCHANGED <<scanVars, retVars, elapsed, child, termReqs, interrupts, mainVars>>

\* a handler of the read error that takes start_time anew
ReadError_restart ==
    /\ pc = "read"
    /\ pc' = "sleep"
    /\ elapsed' = 0
    /\ UNCHANGED <<scanVars, retVars, child, termReqs, interrupts, mainVars>>

\* lines 72-73: the read raises an error, which the bare except catches
ReadError ==
    /\ pc = "read"
    /\ pc' = "sleep"
    /\ UNCHANGED <<scanVars, retVars, elapsed, child, termReqs, interrupts, mainVars>>

\* line 73: time.sleep(0.01) is over
SleepDone ==
    /\ pc = "sleep"
    /\ pc' = "loop"
    /\ UNCHANGED <<scanVars, retVars, elapsed, child, termReqs, interrupts, mainVars>>

----------------------------------------------------------------------------
(* send_email and the top-level script *)

EmailOutcomes == {"ok", "connect", "starttls", "login", "send"}

\* send_email with a handler that catches the errors of the connection only
send_email_narrow(o) ==
    IF o = "ok" THEN [raised |-> FALSE, ret |-> TRUE]
    ELSE IF o = "connect" THEN [raised |-> FALSE, ret |-> FALSE]
    ELSE [raised |-> TRUE, ret |-> FALSE]

\* lines 92-107: send_email when the transport behaves as o: every
\* exception of lines 93-101 is caught at line 105
send_email(o) ==
    IF o = "ok" THEN [raised |-> FALSE, ret |-> TRUE]
    ELSE [raised |-> FALSE, ret |-> FALSE]

\* the script falling through to the direct run when the mail failed
AfterEmail_rerun(ok) == IF ok THEN "wait" ELSE "rerun"

\* lines 117-122: where the script goes after send_email returned ok
AfterEmail(ok) == "wait"

\* lines 110-115 and 128-132: capture_bore_url has returned, its locals are
\* gone, and the script branches on the captured url
MainBranch ==
    /\ pc = "main"
    /\ output' = <<>>
    /\ found_bore_pub' = FALSE
    /\ port_digits' = <<>>
    /\ childPos' = 0
    /\ elapsed' = 0
    /\ IF url # None
       THEN /\ urlPrinted' = TRUE
            /\ pc' = "email"
            /\ UNCHANGED <<emailCalls, emailOutcome, emailRet, rerun, rerunCalls>>
       ELSE /\ rerun' = "running"
            /\ rerunCalls' = rerunCalls + 1
            /\ pc' = "rerun"
            /\ UNCHANGED <<urlPrinted, emailCalls, emailOutcome, emailRet>>
    /\ UNCHANGED <<retVars, child, termReqs, interrupts>>

\* line 117: the call of send_email
SendEmail(o) ==
    /\ pc = "email"
    /\ emailCalls' = emailCalls + 1
    /\ emailOutcome' = o
    /\ LET r == send_email(o) IN
         IF r.raised
         THEN /\ pc' = "crashed"
              /\ UNCHANGED emailRet
         ELSE /\ emailRet' = <<r.ret>>
              /\ pc' = AfterEmail(r.ret)
    /\ UNCHANGED <<scanVars, retVars, elapsed, child, termReqs, interrupts,
                   urlPrinted, rerun, rerunCalls>>

\* line 124: process.wait() returns because the child has exited
WaitReturn ==
    /\ pc = "wait"
    /\ child = "exited"
    /\ pc' = "done"
    /\ UNCHANGED <<scanVars, retVars, elapsed, child, termReqs, interrupts, mainVars>>

\* line 132: subprocess.run returns because the second bore.exe has exited
RerunExit ==
    /\ pc = "rerun"
    /\ rerun' = "exited"
    /\ pc' = "done"
    /\ UNCHANGED <<scanVars, retVars, elapsed, child, termReqs, interrupts,
                   urlPrinted, emailCalls, emailOutcome, emailRet, rerunCalls>>

----------------------------------------------------------------------------
(* KeyboardInterrupt, by the place it is raised at *)

\* the handler of lines 125-127 without its process.terminate()
InterruptWait_noTerminate ==
    /\ pc = "wait"
    /\ interrupts < MaxInterrupts
    /\ interrupts' = interrupts + 1
    /\ pc' = "done"
    /\ UNCHANGED <<scanVars, retVars, elapsed, child, termReqs, mainVars>>

\* lines 125-127: raised in process.wait(), caught by the handler
InterruptWait ==
    /\ pc = "wait"
    /\ interrupts < MaxInterrupts
    /\ interrupts' = interrupts + 1
    /\ termReqs' = termReqs + 1
    /\ pc' = "done"
    /\ UNCHANGED <<scanVars, retVars, elapsed, child, mainVars>>

\* lines 45-73: raised inside the try of the loop, caught by the bare except
InterruptRead ==
    /\ pc = "read"
    /\ interrupts < MaxInterrupts
    /\ interrupts' = interrupts + 1
    /\ pc' = "sleep"
    /\ UNCHANGED <<scanVars, retVars, elapsed, child, termReqs, mainVars>>

\* lines 44, 73, 117, 132: raised outside every handler that catches it
\* (the loop condition, the sleep of the except clause, send_email, whose
\* handler catches Exception only, subprocess.run): the script ends with a
\* traceback.  subprocess.run kills the child it started before it re-raises
InterruptUncaught ==
    /\ pc \in {"loop", "sleep", "email", "rerun"}
    /\ interrupts < MaxInterrupts
    /\ interrupts' = interrupts + 1
    /\ emailCalls' = IF pc = "email" THEN emailCalls + 1 ELSE emailCalls
    /\ rerun' = IF pc = "rerun" THEN "exited" ELSE rerun
    /\ pc' = "crashed"
    /\ UNCHANGED <<scanVars, retVars, elapsed, child, termReqs,
                   urlPrinted, emailOutcome, emailRet, rerunCalls>>

----------------------------------------------------------------------------
Program ==
    \/ LoopEnter
    \/ LoopExit
    \/ \E b \in Digits \cup OtherBytes \cup {Marker[k] : k \in 1..Len(Marker)} :
          ReadByte(b)
    \/ ReadEOF
    \/ SleepDone
    \/ MainBranch
    \/ \E o \in EmailOutcomes : SendEmail(o)
    \/ WaitReturn
    \/ RerunExit

Environment ==
    \/ Tick
    \/ ChildExit
    \/ ReadError
    \/ InterruptWait
    \/ InterruptRead
    \/ InterruptUncaught

Next == Program \/ Environment

Spec == Init /\ [][Next]_vars

\* the steps the script takes on its own, whatever the child and the user do
Scheduled ==
    \/ LoopEnter
    \/ LoopExit
    \/ ReadEOF
    \/ SleepDone
    \/ MainBranch
    \/ \E o \in EmailOutcomes : SendEmail(o)
    \/ WaitReturn

\* the script keeps running and the clock keeps going; nothing obliges the
\* child to write or to exit, nor the user to interrupt
FairSpec == Spec /\ WF_vars(Scheduled) /\ WF_vars(Tick)

----------------------------------------------------------------------------
(* Vocabulary of the properties *)

\* capture_bore_url is returning to line 110, its locals still in place
Returned == pc = "main"

\* the maximal digit runs of s that start right after a marker, have at
\* least n digits and are ended by a non-digit of s
RunsAfterMarker(s, n) ==
    { SubSeq(s, i + Len(Marker), j) :
        <<i, j>> \in { <<i, j>> \in (1..Len(s)) \X (1..Len(s)) :
            /\ MatchAt(s, Marker, i)
            /\ j >= i + Len(Marker) + n - 1
            /\ j + 1 <= Len(s)
            /\ \A k \in (i + Len(Marker))..j : s[k] \in Digits
            /\ s[j + 1] \notin Digits } }

\* s has a marker that is followed by a digit run of 1 to n digits which a
\* non-digit of s ends
HasShortRun(s, n) ==
    \E i \in 1..Len(s) : \E j \in 1..Len(s) :
        /\ MatchAt(s, Marker, i)
        /\ j >= i + Len(Marker)
        /\ j <= i + Len(Marker) + n - 1
        /\ j + 1 <= Len(s)
        /\ \A k \in (i + Len(Marker))..j : s[k] \in Digits
        /\ s[j + 1] \notin Digits

\* the positions of the text s where a marker starts that is immediately
\* followed by 4 digits
PortPositions(s) ==
    { i \in 1..Len(s) :
        /\ MatchAt(s, Marker, i)
        /\ i + Len(Marker) + 3 <= Len(s)
        /\ \A k \in 0..3 : s[i + Len(Marker) + k] \in Digits }

\* the 4 digits after the first such marker, and the 5th when there is one
FirstPort(s) ==
    LET i == CHOOSE p \in PortPositions(s) : \A q \in PortPositions(s) : p <= q
        d == i + Len(Marker)
    IN  IF d + 4 <= Len(s) /\ s[d + 4] \in Digits
        THEN SubSeq(s, d, d + 4) ELSE SubSeq(s, d, d + 3)

----------------------------------------------------------------------------
(* Properties *)

\* C1: once capture_bore_url has returned, if the bytes read hold a marker
\* followed by a run of at least 4 digits that a non-digit ends, the url is
\* the fast-path url whose digits are exactly such a run.
C1_FastPathExactRun ==
    (Returned /\ RunsAfterMarker(output, MinPort) # {})
        => \E r \in RunsAfterMarker(output, MinPort) : url = FastUrl(r)

\* C2: when capture_bore_url returns after the timeout and the decoded
\* output holds a marker immediately followed by 4 to 5 digits, the url is
\* http://bore.pub:<port>/ with the digits of the first such place.
C2_FallbackFirstMatch ==
    (Returned /\ via = "timeout" /\ PortPositions(Decode(output)) # {})
        => url = <<"http://bore.pub:">> \o FirstPort(Decode(output)) \o <<"/">>

\* C2 witness: a return after the timeout with a 5 digit match in the output
C2_Witness ==
    /\ Returned
    /\ via = "timeout"
    /\ PortPositions(Decode(output)) # {}
    /\ Len(FirstPort(Decode(output))) = 5
    /\ url # None

\* C3: whenever the bytes read hold a marker followed by a run of fewer than
\* 4 digits that a non-digit ends, capture_bore_url does not return by the
\* fast path (it falls through to the timeout path).
C3_ShortRunNeverFast ==
    (Returned /\ HasShortRun(output, MinPort - 1)) => via # "fast"

\* C4: when the decoded output never held a marker, capture_bore_url returns
\* None, and not before the 15 seconds have elapsed.
C4_NoMarkerNoneAfterBudget ==
    (Returned /\ ~Contains(Decode(output), Marker))
        => (url = None /\ elapsed >= TIMEOUT)

\* C4 witness: the child wrote bytes without a marker and closed its output,
\* and capture_bore_url has returned
C4_Witness ==
    /\ Returned
    /\ ~Contains(Decode(output), Marker)
    /\ output # <<>>
    /\ child = "exited"
    /\ url = None

\* the script is inside the scan loop of lines 44-73
InScanLoop == pc \in {"loop", "read", "sleep"}

\* C5: capture_bore_url always eventually leaves the scan loop, whatever the
\* child does.
C5_ScanLoopIsLeft == <>(~InScanLoop)

\* C5 (fairness made explicit in FairSpec) is stated above.

\* C6: an interrupt raised while the script is in process.wait() makes it
\* call process.terminate() once, for the first time, and end; once ended,
\* no further termination request is sent.
C6_WaitInterruptTerminatesOnce ==
    [][ /\ (pc = "wait" /\ interrupts' # interrupts)
            => (termReqs = 0 /\ termReqs' = 1 /\ pc' = "done")
        /\ (pc = "done" => termReqs' = termReqs) ]_vars

\* C6 witness: the script has ended after an interrupt in the wait
C6_Witness == pc = "done" /\ interrupts = 1 /\ termReqs = 1 /\ emailCalls = 1

\* C7: every interrupt, in whichever phase it is raised, makes the script
\* send the child a termination request and end.
C7_EveryInterruptTerminates ==
    [][ interrupts' # interrupts => (termReqs' = termReqs + 1 /\ pc' = "done") ]_vars

\* C8: send_email is only called after the url was printed, and when the
\* transport fails at any stage send_email returns False and the script goes
\* on (nothing is raised).
C8_PrintedThenEmailNeverRaises ==
    /\ (pc = "email" \/ emailCalls > 0) => urlPrinted
    /\ (emailOutcome \in EmailOutcomes \ {"ok"})
          => (emailRet = <<FALSE>> /\ pc \in {"wait", "done"})
    /\ (emailOutcome = "ok") => emailRet = <<TRUE>>

\* C8 witness: the login failed, send_email returned False, the url is on
\* the console
C8_Witness ==
    /\ emailOutcome = "login"
    /\ emailRet = <<FALSE>>
    /\ urlPrinted
    /\ pc = "wait"

\* C9: send_email and the direct run are each started at most once and
\* never both; with a url send_email is called and, once it has returned
\* either value, the script is in (or past) process.wait(); without a url
\* send_email is not called and the direct run is started.
C9_ExactlyOneBranch ==
    /\ emailCalls <= 1 /\ rerunCalls <= 1
    /\ emailCalls + rerunCalls <= 1
    /\ emailCalls = 1 => (url # None /\ rerun = "none")
    /\ rerunCalls = 1 => (url = None /\ emailOutcome = "none")
    /\ emailRet # <<>> => (emailCalls = 1 /\ pc \in {"wait", "done"})
    /\ pc \in {"wait", "done"} => (emailCalls = 1 \/ rerunCalls = 1)
    /\ pc = "wait" => (url # None /\ emailCalls = 1 /\ emailRet # <<>>)
    /\ pc = "rerun" => (url = None /\ rerunCalls = 1 /\ rerun = "running")
    /\ rerun # "none" => rerunCalls = 1
    /\ (process # "unset" /\ pc # "main" /\ url = None) => rerunCalls = 1
    /\ (process # "unset" /\ pc \notin {"main", "email"} /\ url # None)
          => emailCalls = 1

\* C9 witness: send_email returned False and the script waits on the child
C9_Witness ==
    /\ pc = "wait"
    /\ emailRet = <<FALSE>>
    /\ emailCalls = 1
    /\ rerunCalls = 0

\* C10: capture_bore_url sends the child no termination request, and on
\* each return it hands back the handle of the child it spawned.
C10_ChildReturnedUnterminated ==
    /\ (InScanLoop \/ pc = "main") => termReqs = 0
    /\ pc = "main" => (process = CapturedChild /\ via \in {"fast", "timeout"})
    /\ InScanLoop => process = "unset"

\* C10 witness: a return without a url, the child still running
C10_Witness ==
    /\ pc = "main"
    /\ url = None
    /\ via = "timeout"
    /\ process = CapturedChild
    /\ child = "running"
    /\ termReqs = 0

\* C11: at no point are two bore.exe processes started by the script running
\* at once; the child of the scan is gone when the direct run is under way.
C11_AtMostOneChildRunning == ~(child = "running" /\ rerun = "running")

\* C12: a read error (a step from the read to the sleep of line 73 that is
\* no interrupt) changes neither output, found_bore_pub, port_digits nor the
\* time spent of the budget, and returns nothing; the sleep over, the loop
\* condition is tested again on the same state; and capture_bore_url is
\* never left by an exception unless the user interrupts.
C12_ReadErrorSwallowed ==
    [][ /\ (pc = "read" /\ pc' = "sleep" /\ interrupts' = interrupts)
            => (/\ output' = output
                /\ found_bore_pub' = found_bore_pub
                /\ port_digits' = port_digits
                /\ elapsed' = elapsed
                /\ url' = url /\ process' = process /\ via' = via)
        /\ (pc = "sleep" /\ pc' # "sleep" /\ interrupts' = interrupts)
            => (/\ pc' = "loop"
                /\ output' = output
                /\ found_bore_pub' = found_bore_pub
                /\ port_digits' = port_digits
                /\ elapsed' = elapsed)
        /\ (InScanLoop /\ interrupts' = interrupts)
            => (InScanLoop' \/ (pc' = "main" /\ process' = CapturedChild)) ]_vars

\* C12 witness: a read error was caught after digits of a port were read and
\* part of the budget was spent
C12_Witness ==
    /\ pc = "sleep"
    /\ interrupts = 0
    /\ found_bore_pub
    /\ port_digits # <<>>
    /\ elapsed > 0
    /\ elapsed < TIMEOUT

\* the number of bytes read when the decoded bytes first held a marker (the
\* byte that completes a marker is its ':'), 0 when they never did
FirstMarkerEnd(s) ==
    LET E == { n \in 1..Len(s) :
                 s[n] = ":" /\ Contains(Decode(SubSeq(s, 1, n)), Marker) }
    IN  IF E = {} THEN 0 ELSE CHOOSE n \in E : \A m \in E : n <= m

\* the digit bytes of s after position n, in their order
DigitsAfter(s, n) ==
    SelectSeq(SubSeq(s, n + 1, Len(s)), LAMBDA x : x \in Digits)

\* what C13 says of one state of the scan
C13_State(out, found, digits) ==
    /\ found <=> FirstMarkerEnd(out) # 0
    /\ ~found => digits = <<>>
    /\ found => digits = DigitsAfter(out, FirstMarkerEnd(out))

\* C13: while capture_bore_url runs, found_bore_pub never goes back to
\* false, port_digits is empty as long as found_bore_pub is false, and
\* port_digits is the sequence of all digits read after the byte that
\* completed the first marker (a short run is kept, later digits are
\* appended to it).
C13_PortDigitsAccumulate ==
    /\ []((InScanLoop \/ Returned)
            => C13_State(output, found_bore_pub, port_digits))
    /\ [][ (InScanLoop /\ found_bore_pub) => found_bore_pub' ]_vars

\* C13 witness: a short run was ended by a non-digit and the digits read
\* since have been appended to it
C13_Witness ==
    /\ InScanLoop
    /\ found_bore_pub
    /\ HasShortRun(output, MinPort - 1)
    /\ Len(port_digits) >= MinPort
    /\ RunsAfterMarker(output \o <<" ">>, MinPort) = {}

\* u is the string <head><p><tail> with p made of lo to hi decimal digits
IsUrlOfShape(u, tail, lo, hi) ==
    /\ Len(u) >= 2
    /\ u[1] = "http://bore.pub:"
    /\ u[Len(u)] = tail
    /\ Len(u) - 2 >= lo
    /\ Len(u) - 2 <= hi
    /\ \A k \in 2..(Len(u) - 1) : u[k] \in Digits

\* C14: the value capture_bore_url returns is http://bore.pub:<p>/opds/all
\* with at least 4 digits (only from the read of a non-digit), or
\* http://bore.pub:<p>/ with 4 or 5 digits (only after the timeout), or
\* None (only after the timeout); a url is only returned when the decoded
\* bytes read hold the marker.
C14_ReturnShapes ==
    Returned =>
        /\ via \in {"fast", "timeout"}
        /\ via = "fast" =>
              /\ IsUrlOfShape(url, "/opds/all", 4, Len(output))
              /\ output # <<>>
              /\ output[Len(output)] \notin Digits
        /\ via = "timeout" =>
              /\ url = None \/ IsUrlOfShape(url, "/", 4, 5)
              /\ elapsed >= TIMEOUT
        /\ url # None => Contains(Decode(output), Marker)

\* C14 witness: a fast-path return of a port of exactly 4 digits, within
\* the budget
C14_Witness ==
    /\ Returned
    /\ via = "fast"
    /\ Len(url) = 6
    /\ url[6] = "/opds/all"
    /\ elapsed < TIMEOUT

====
